---------------------------- MODULE Spec2Model ----------------------------
(***************************************************************************)
(* A model of godbot (src/src/bot.py): the MessageWriter that packs reply  *)
(* text into size-bounded chunks, the CompilerRegistry that derives alias  *)
(* descriptors and looks compilers up, and the chat handlers that send the *)
(* formatted result of a compile.                                          *)
(*                                                                         *)
(* A Python str is modelled as a sequence of one-character strings, so     *)
(* that slicing, concatenation and len() are the operations of the code.   *)
(***************************************************************************)
EXTENDS Integers, Sequences, FiniteSets, TLC

(***************************************************************************)
(* Bounds of the model.                                                    *)
(***************************************************************************)
\* largest max_size a MessageWriter is constructed with
MaxSize == 6
\* longest line text handed to add_line
MaxLineLen == 2
\* number of MessageWriter calls in one run
MaxOps == 3
\* longest compiler list the remote service answers with (the list of the
\* three-compiler scenario is added to them)
MaxRaw == 2
\* number of updates the handlers receive in one run
MaxUpdates == 2
\* number of updates in a run of commands that reply to a message and of edits
MaxTurns == 3
\* most lines in a section of a CompileResult handed to to_messages
MaxLines == 2
\* longest text handed to escape_ansi
MaxText == 6
\* most pieces (escape sequences, characters) of a text handed to convert_ansi
MaxPieces == 3

VARIABLES
    w,          \* the MessageWriter: [max_size, messages, code_mode]
    added,      \* history: the lines handed to add_line, each with its "\n"
    alt,        \* history: set_code_mode / set_plain_mode have alternated
    nops,       \* history: number of MessageWriter calls made
    remote,     \* the compiler list the remote service answers load with
    compilers,  \* cr.compilers
    loaded,     \* history: cr.load() has run
    res,        \* the last call on the registry and what it gave
    compiler_requests,  \* store._compiler_requests: key -> dumped options
    compiler_results,   \* store._compiler_results: key -> CompileResult
    sent,       \* the calls made on the chat platform, in order
    posts,      \* the compile requests posted to the remote service, in order
    next_id,    \* the message id the chat platform gives the next reply
    upd,        \* history: the last update handled and what its handler did
    asked,      \* history: key of a message -> the last command that replied to it
    arg,        \* the argument a function is called with
    ret         \* the last call of a function and what it returned

wvars == <<w, added, alt, nops>>
cvars == <<remote, compilers, loaded, res>>
bvars == <<compiler_requests, compiler_results, sent, posts, next_id, upd, asked>>
pvars == <<arg, ret>>
vars == <<w, added, alt, nops, remote, compilers, loaded, res,
          compiler_requests, compiler_results, sent, posts, next_id, upd, asked,
          arg, ret>>

(***************************************************************************)
(* Characters and strings.                                                 *)
(***************************************************************************)
NL == "\n"
\* the backtick (written ^ here: a backtick cannot stand in a TLA+ string)
BT == "^"
\* the fence marker, three backticks and a newline, written by set_code_mode, set_plain_mode, _add_block
FENCE == <<BT, BT, BT, NL>>

\* characters of line text
LineChars == {"a", BT}

\* s[i..] starts with p
StartsWithAt(s, i, p) ==
    /\ i + Len(p) - 1 <= Len(s)
    /\ \A k \in 1..Len(p) : s[i + k - 1] = p[k]

StartsWith(s, p) == StartsWithAt(s, 1, p)
EndsWith(s, p) == Len(s) >= Len(p) /\ StartsWithAt(s, Len(s) - Len(p) + 1, p)

\* line text holds no run of three backticks
NoFence(s) == \A i \in 1..Len(s) : ~StartsWithAt(s, i, <<BT, BT, BT>>)

SeqsUpTo(S, n) == UNION {[1..k -> S] : k \in 0..n}

\* the line texts the model hands to add_line: no fence marker in them
Lines == {s \in SeqsUpTo(LineChars, MaxLineLen) : NoFence(s)}

(***************************************************************************)
(* Characters of identifiers, command tokens and version strings, in ASCII *)
(* order (the order str comparison uses).                                  *)
(***************************************************************************)
Digits == <<"0", "1", "2", "3", "4", "5", "6", "7", "8", "9">>
Upper == <<"A", "B", "C", "D", "E", "F", "G", "H", "I", "J", "K", "L", "M",
           "N", "O", "P", "Q", "R", "S", "T", "U", "V", "W", "X", "Y", "Z">>
Lower == <<"a", "b", "c", "d", "e", "f", "g", "h", "i", "j", "k", "l", "m",
           "n", "o", "p", "q", "r", "s", "t", "u", "v", "w", "x", "y", "z">>
Ascii == <<" ", "(", ")", "+", "-", ".">> \o Digits \o Upper \o <<"_">> \o Lower

Range(f) == {f[i] : i \in DOMAIN f}
IsDigit(c) == c \in Range(Digits)
IsLetter(c) == c \in Range(Upper) \cup Range(Lower)
\* the class [a-zA-Z0-9_] of clean_command's pattern
IsWordChar(c) == IsDigit(c) \/ IsLetter(c) \/ c = "_"
DigitVal(c) == (CHOOSE i \in DOMAIN Digits : Digits[i] = c) - 1
Ord(c) == CHOOSE i \in DOMAIN Ascii : Ascii[i] = c

\* s.lower()
ToLower(s) ==
    [i \in DOMAIN s |->
        IF s[i] \in Range(Upper)
        THEN Lower[CHOOSE k \in DOMAIN Upper : Upper[k] = s[i]]
        ELSE s[i]]

\* p in s
Contains(s, p) == \E i \in 1..(Len(s) + 1) : StartsWithAt(s, i, p)

\* first index of character c in s, 0 when there is none
IndexOf(s, c) ==
    IF \E i \in DOMAIN s : s[i] = c
    THEN CHOOSE i \in DOMAIN s : s[i] = c /\ \A j \in 1..(i - 1) : s[j] # c
    ELSE 0

\* s.split(c)
RECURSIVE Split(_, _)
Split(s, c) ==
    LET i == IndexOf(s, c)
    IN  IF i = 0 THEN <<s>>
        ELSE <<SubSeq(s, 1, i - 1)>> \o Split(SubSeq(s, i + 1, Len(s)), c)

\* int(s) for a string of digits
RECURSIVE DigitsToNat(_)
DigitsToNat(s) ==
    IF s = <<>> THEN 0
    ELSE DigitsToNat(SubSeq(s, 1, Len(s) - 1)) * 10 + DigitVal(s[Len(s)])

\* str(n) for n >= 0
RECURSIVE NatToStr(_)
NatToStr(n) ==
    IF n < 10 THEN <<Digits[n + 1]>>
    ELSE NatToStr(n \div 10) \o <<Digits[(n % 10) + 1]>>

\* sep.join(parts)
RECURSIVE Join(_, _)
Join(parts, sep) ==
    IF parts = <<>> THEN <<>>
    ELSE IF Len(parts) = 1 THEN parts[1]
    ELSE parts[1] \o sep \o Join(Tail(parts), sep)

\* an Optional value: <<>> is None, <<x>> is x
None == <<>>
Some(x) == <<x>>

\* -1, 0, 1
Cmp(a, b) == IF a < b THEN -1 ELSE IF a > b THEN 1 ELSE 0

\* comparison of two str values
RECURSIVE StrCmp(_, _)
StrCmp(a, b) ==
    IF a = <<>> \/ b = <<>> THEN Cmp(Len(a), Len(b))
    ELSE IF a[1] # b[1] THEN Cmp(Ord(a[1]), Ord(b[1]))
    ELSE StrCmp(Tail(a), Tail(b))

(***************************************************************************)
(* semver.Version, as bot.py uses it.                                      *)
(***************************************************************************)
\* 0|[1-9]\d*
IsNumeric(s) ==
    /\ s # <<>>
    /\ \A i \in DOMAIN s : IsDigit(s[i])
    /\ (Len(s) > 1 => s[1] # "0")

IsLabelChar(c) == IsDigit(c) \/ IsLetter(c) \/ c = "-"

\* the build pattern: dot-separated non-empty runs of [0-9a-zA-Z-]
IsBuild(s) ==
    \A p \in Range(Split(s, ".")) :
        p # <<>> /\ \A i \in DOMAIN p : IsLabelChar(p[i])

\* the prerelease pattern: as a build, a run of digits being numeric
IsPrerelease(s) ==
    \A p \in Range(Split(s, ".")) :
        /\ p # <<>>
        /\ \A i \in DOMAIN p : IsLabelChar(p[i])
        /\ ((\A i \in DOMAIN p : IsDigit(p[i])) => IsNumeric(p))

\* Version.parse(text, optional_minor_and_patch): <<>> when it raises ValueError
VersionParse(text, optional_minor_and_patch) ==
    LET plus == IndexOf(text, "+")
        nobuild == IF plus = 0 THEN text ELSE SubSeq(text, 1, plus - 1)
        build == IF plus = 0 THEN None ELSE Some(SubSeq(text, plus + 1, Len(text)))
        dash == IndexOf(nobuild, "-")
        core == IF dash = 0 THEN nobuild ELSE SubSeq(nobuild, 1, dash - 1)
        pre == IF dash = 0 THEN None ELSE Some(SubSeq(nobuild, dash + 1, Len(nobuild)))
        nums == Split(core, ".")
        ok == /\ \A i \in DOMAIN nums : IsNumeric(nums[i])
              /\ \/ Len(nums) = 3
                 \/ optional_minor_and_patch /\ Len(nums) \in 1..2
              /\ pre # None => IsPrerelease(pre[1])
              /\ build # None => IsBuild(build[1])
    IN  IF ok
        THEN Some([major |-> DigitsToNat(nums[1]),
                   minor |-> IF Len(nums) >= 2 THEN DigitsToNat(nums[2]) ELSE 0,
                   patch |-> IF Len(nums) >= 3 THEN DigitsToNat(nums[3]) ELSE 0,
                   prerelease |-> pre,
                   build |-> build])
        ELSE None

\* str(version)
VersionStr(v) ==
    NatToStr(v.major) \o <<".">> \o NatToStr(v.minor) \o <<".">> \o NatToStr(v.patch)
    \o (IF v.prerelease = None THEN <<>> ELSE <<"-">> \o v.prerelease[1])
    \o (IF v.build = None THEN <<>> ELSE <<"+">> \o v.build[1])

\* version.bump_patch()
BumpPatch(v) ==
    [major |-> v.major, minor |-> v.minor, patch |-> v.patch + 1,
     prerelease |-> None, build |-> None]

\* one identifier of a prerelease against another: numbers first, then text
TagCmp(a, b) ==
    LET na == \A i \in DOMAIN a : IsDigit(a[i])
        nb == \A i \in DOMAIN b : IsDigit(b[i])
    IN  IF na /\ nb THEN Cmp(DigitsToNat(a), DigitsToNat(b))
        ELSE IF na THEN -1
        ELSE IF nb THEN 1
        ELSE StrCmp(a, b)

RECURSIVE PartsCmp(_, _, _, _)
PartsCmp(pa, pb, la, lb) ==
    IF pa = <<>> \/ pb = <<>> THEN Cmp(la, lb)
    ELSE IF TagCmp(pa[1], pb[1]) # 0 THEN TagCmp(pa[1], pb[1])
    ELSE PartsCmp(Tail(pa), Tail(pb), la, lb)

\* the comparison of two prerelease strings, None being ""
NatCmp(a, b) ==
    LET sa == IF a = None THEN <<>> ELSE a[1]
        sb == IF b = None THEN <<>> ELSE b[1]
    IN  PartsCmp(Split(sa, "."), Split(sb, "."), Len(sa), Len(sb))

\* a.compare(b): the core numbers, then the prerelease; the build is ignored
VersionCmp(a, b) ==
    IF a.major # b.major THEN Cmp(a.major, b.major)
    ELSE IF a.minor # b.minor THEN Cmp(a.minor, b.minor)
    ELSE IF a.patch # b.patch THEN Cmp(a.patch, b.patch)
    ELSE IF NatCmp(a.prerelease, b.prerelease) = 0 THEN 0
    ELSE IF a.prerelease = None THEN 1
    ELSE IF b.prerelease = None THEN -1
    ELSE NatCmp(a.prerelease, b.prerelease)

(***************************************************************************)
(* A Python value that is a Version or a str, and its comparisons.         *)
(* Comparing a Version with a str parses the str (Version.compare), which  *)
(* raises ValueError when the str is no semantic version.                  *)
(***************************************************************************)
\* the unused side of such a value is filled with a fixed one
NoVersion == [major |-> 0, minor |-> 0, patch |-> 0, prerelease |-> None, build |-> None]
AsVersion(v) == [isver |-> TRUE, v |-> v, s |-> <<>>]
AsStr(s) == [isver |-> FALSE, v |-> NoVersion, s |-> s]

VALUE_ERROR == "ValueError"
TYPE_ERROR == "TypeError"

\* x.compare(y) for two values one of which is a Version: Some(-1|0|1), or
\* None when parsing the str side raises ValueError
VerOrStrCmp(x, y) ==
    LET px == IF x.isver THEN Some(x.v) ELSE VersionParse(x.s, FALSE)
        py == IF y.isver THEN Some(y.v) ELSE VersionParse(y.s, FALSE)
    IN  IF px = None \/ py = None THEN None ELSE Some(VersionCmp(px[1], py[1]))

\* x == y: "T", "F" or VALUE_ERROR
PyEq(x, y) ==
    IF ~x.isver /\ ~y.isver THEN (IF x.s = y.s THEN "T" ELSE "F")
    ELSE LET c == VerOrStrCmp(x, y)
         IN  IF c = None THEN VALUE_ERROR ELSE IF c[1] = 0 THEN "T" ELSE "F"

\* x >= y, x < y, x > y where y is a Version: "T", "F" or VALUE_ERROR
PyGe(x, y) ==
    LET c == VerOrStrCmp(x, y)
    IN  IF c = None THEN VALUE_ERROR ELSE IF c[1] >= 0 THEN "T" ELSE "F"

PyLt(x, y) ==
    LET c == VerOrStrCmp(x, y)
    IN  IF c = None THEN VALUE_ERROR ELSE IF c[1] < 0 THEN "T" ELSE "F"

PyGt(x, y) ==
    LET c == VerOrStrCmp(x, y)
    IN  IF c = None THEN VALUE_ERROR ELSE IF c[1] > 0 THEN "T" ELSE "F"

(***************************************************************************)
(* Compiler                                                                *)
(***************************************************************************)
GCC == <<"g", "c", "c">>
CLANG == <<"c", "l", "a", "n", "g">>
NONE_STR == <<"N", "o", "n", "e">>
LATEST == <<"(", "l", "a", "t", "e", "s", "t", ")">>

\* Compiler.get_name: re.match(r'g\d+'), re.match(r'clang\d+')
GetName(id) ==
    IF Len(id) >= 2 /\ id[1] = "g" /\ IsDigit(id[2]) THEN Some(GCC)
    ELSE IF Len(id) >= 6 /\ SubSeq(id, 1, 5) = CLANG /\ IsDigit(id[6]) THEN Some(CLANG)
    ELSE None

\* re.sub(r'_{2,}', '_', s)
RECURSIVE Collapse(_)
Collapse(s) ==
    IF Len(s) < 2 THEN s
    ELSE IF s[1] = "_" /\ s[2] = "_" THEN Collapse(Tail(s))
    ELSE <<s[1]>> \o Collapse(Tail(s))

\* Compiler.clean_command
CleanCommand(command) ==
    Collapse([i \in DOMAIN command |->
                IF IsWordChar(command[i]) THEN command[i] ELSE "_"])

\* f'{name}' for an Optional[str]
NameStr(name) == IF name = None THEN NONE_STR ELSE name[1]

\* Compiler.__init__; command is an Optional[str]
Compiler(id, ver, title, command) ==
    LET parsed == VersionParse(ver, TRUE)
    IN  [id |-> id,
         title |-> title,
         command |-> CleanCommand(IF command # None /\ command[1] # <<>>
                                  THEN command[1] ELSE id),
         name |-> GetName(id),
         ver |-> IF parsed # None THEN AsVersion(parsed[1]) ELSE AsStr(ver)]

(***************************************************************************)
(* CompilerRegistry                                                        *)
(***************************************************************************)
LANG_CPP == "c++"
ISET_AMD64 == "amd64"

\* the filter loop of load with the instruction set not tested
RECURSIVE PrimariesAnyArch(_)
PrimariesAnyArch(raw) ==
    IF raw = <<>> THEN <<>>
    ELSE (IF raw[1].lang = LANG_CPP
          THEN <<Compiler(raw[1].id, raw[1].semver, raw[1].name, None)>>
          ELSE <<>>) \o PrimariesAnyArch(Tail(raw))

\* the filter loop of load: one Compiler per c++/amd64 record, in order
RECURSIVE Primaries(_)
Primaries(raw) ==
    IF raw = <<>> THEN <<>>
    ELSE (IF raw[1].lang = LANG_CPP /\ raw[1].instructionSet = ISET_AMD64
          THEN <<Compiler(raw[1].id, raw[1].semver, raw[1].name, None)>>
          ELSE <<>>) \o Primaries(Tail(raw))

\* the loop of _add_latest_compiler keeping the first version instead of the greatest
RECURSIVE LatestIndexFirst(_, _, _)
LatestIndexFirst(cs, name, i) ==
    IF i = 0 THEN 0
    ELSE LET latest == LatestIndexFirst(cs, name, i - 1)
         IN  IF cs[i].name = Some(name) /\ cs[i].ver.isver /\ latest = 0
             THEN i ELSE latest

\* the loop of _add_latest_compiler passing over versions with a pre-release or build label
RECURSIVE LatestIndexReleased(_, _, _)
LatestIndexReleased(cs, name, i) ==
    IF i = 0 THEN 0
    ELSE LET latest == LatestIndexReleased(cs, name, i - 1)
         IN  IF /\ cs[i].name = Some(name)
                /\ cs[i].ver.isver
                /\ cs[i].ver.v.prerelease = None /\ cs[i].ver.v.build = None
                /\ (latest = 0 \/ VersionCmp(cs[i].ver.v, cs[latest].ver.v) > 0)
             THEN i ELSE latest

\* the loop of _add_latest_compiler: the index of latest after the first i
\* compilers, 0 for None
RECURSIVE LatestIndex(_, _, _)
LatestIndex(cs, name, i) ==
    IF i = 0 THEN 0
    ELSE LET latest == LatestIndex(cs, name, i - 1)
         IN  IF /\ cs[i].name = Some(name)
                /\ cs[i].ver.isver
                /\ (latest = 0 \/ VersionCmp(cs[i].ver.v, cs[latest].ver.v) > 0)
             THEN i ELSE latest

\* CompilerRegistry._add_latest_compiler
AddLatestCompiler(cs, name) ==
    LET latest == LatestIndex(cs, name, Len(cs))
    IN  IF latest # 0
        THEN Append(cs, Compiler(cs[latest].id, LATEST, cs[latest].title, Some(name)))
        ELSE cs

\* the inner loop of _add_complier_aliases skipping zeros instead of stopping at one
RECURSIVE VerPartsNonZero(_)
VerPartsNonZero(t) ==
    IF t = <<>> THEN <<>>
    ELSE (IF t[1] = 0 THEN <<>> ELSE <<NatToStr(t[1])>>) \o VerPartsNonZero(Tail(t))

\* the inner loop of _add_complier_aliases: the components up to the first zero
RECURSIVE VerParts(_)
VerParts(t) ==
    IF t = <<>> \/ t[1] = 0 THEN <<>>
    ELSE <<NatToStr(t[1])>> \o VerParts(Tail(t))

\* the aliases _add_complier_aliases derives from the compilers cs[i..]
RECURSIVE Aliases(_, _)
Aliases(cs, i) ==
    IF i > Len(cs) THEN <<>>
    ELSE LET c == cs[i]
             parts == VerParts(<<c.ver.v.major, c.ver.v.minor, c.ver.v.patch>>)
         IN  (IF /\ c.ver.isver
                 /\ c.ver.v.prerelease = None /\ c.ver.v.build = None
                 /\ parts # <<>>
              THEN <<Compiler(c.id, VersionStr(c.ver.v), c.title,
                              Some(NameStr(c.name) \o <<"-">> \o Join(parts, <<"_">>)))>>
              ELSE <<>>) \o Aliases(cs, i + 1)

\* CompilerRegistry._add_complier_aliases
AddCompilerAliases(cs) == cs \o Aliases(cs, 1)

\* CompilerRegistry.load on the list the remote service returned
LoadResult(raw) ==
    AddCompilerAliases(AddLatestCompiler(AddLatestCompiler(Primaries(raw), GCC), CLANG))

\* what a lookup gives: the position in compilers of the Compiler returned,
\* or the exception raised
Found(i) == [err |-> "", idx |-> i]
Raised(e) == [err |-> e, idx |-> 0]

\* get_compiler_by_command returning the last match instead of the first
GetCompilerByCommandLast(cs, command) ==
    IF \E i \in DOMAIN cs : cs[i].command = command
    THEN Found(CHOOSE i \in DOMAIN cs :
                /\ cs[i].command = command
                /\ \A j \in (i + 1)..Len(cs) : cs[j].command # command)
    ELSE Raised(VALUE_ERROR)

\* CompilerRegistry.get_compiler_by_command
GetCompilerByCommand(cs, command) ==
    IF \E i \in DOMAIN cs : cs[i].command = command
    THEN Found(CHOOSE i \in DOMAIN cs :
                /\ cs[i].command = command
                /\ \A j \in 1..(i - 1) : cs[j].command # command)
    ELSE Raised(VALUE_ERROR)

\* the loop of get_compiler_exact from compiler i on
RECURSIVE ExactFrom(_, _, _, _)
ExactFrom(cs, name, ver, i) ==
    IF i > Len(cs) THEN Raised(VALUE_ERROR)
    ELSE IF cs[i].name # Some(name) THEN ExactFrom(cs, name, ver, i + 1)
    ELSE LET eq == PyEq(cs[i].ver, ver)
         IN  IF eq = VALUE_ERROR THEN Raised(VALUE_ERROR)
             ELSE IF eq = "T" THEN Found(i)
             ELSE ExactFrom(cs, name, ver, i + 1)

\* CompilerRegistry.get_compiler_exact; version is a str or, when get_compiler
\* calls it, a Version, which Version.parse refuses with TypeError
GetCompilerExact(cs, name, version) ==
    IF version.isver THEN Raised(TYPE_ERROR)
    ELSE LET parsed == VersionParse(version.s, FALSE)
         IN  ExactFrom(cs, name,
                       IF parsed # None THEN AsVersion(parsed[1]) ELSE version, 1)

\* one pass of the loop of get_compiler over compiler c: bestVer (an Optional
\* value) after it, or the exception a comparison raised
BestStep(c, name, ver, acc) ==
    IF c.name # Some(name) THEN acc
    ELSE IF PyGe(c.ver, AsVersion(ver)) = VALUE_ERROR THEN [err |-> VALUE_ERROR, best |-> None]
    ELSE IF PyGe(c.ver, AsVersion(ver)) = "F" THEN acc
    ELSE IF PyLt(c.ver, AsVersion(BumpPatch(ver))) = VALUE_ERROR
         THEN [err |-> VALUE_ERROR, best |-> None]
    ELSE IF PyLt(c.ver, AsVersion(BumpPatch(ver))) = "F" THEN acc
    ELSE IF acc.best = None THEN [err |-> "", best |-> Some(c.ver)]
    ELSE IF PyGt(c.ver, acc.best[1]) = VALUE_ERROR THEN [err |-> VALUE_ERROR, best |-> None]
    ELSE IF PyGt(c.ver, acc.best[1]) = "T" THEN [err |-> "", best |-> Some(c.ver)]
    ELSE acc

\* the loop of get_compiler from compiler i on
RECURSIVE BestVer(_, _, _, _, _)
BestVer(cs, name, ver, i, acc) ==
    IF i > Len(cs) \/ acc.err # "" THEN acc
    ELSE BestVer(cs, name, ver, i + 1, BestStep(cs[i], name, ver, acc))

\* the end of get_compiler: b is what the loop left
GetCompilerBest(cs, name, b) ==
    IF b.err # "" THEN Raised(b.err)
    ELSE IF b.best # None THEN GetCompilerExact(cs, name, b.best[1])
    ELSE Raised(VALUE_ERROR)

\* get_compiler after its try block: parsed is Version.parse(version) as an
\* Optional value, None when it raised ValueError
GetCompilerParsed(cs, name, version, parsed) ==
    IF parsed = None THEN GetCompilerExact(cs, name, AsStr(version))
    ELSE GetCompilerBest(cs, name,
            BestVer(cs, name, parsed[1], 1, [err |-> "", best |-> None]))

\* CompilerRegistry.get_compiler; version is a str
GetCompiler(cs, name, version) ==
    GetCompilerParsed(cs, name, version, VersionParse(version, FALSE))

(***************************************************************************)
(* MessageWriter                                                           *)
(***************************************************************************)
\* MessageWriter.__init__
NewWriter(max_size) ==
    [max_size |-> max_size, messages |-> << <<>> >>, code_mode |-> FALSE]

\* _add_block with the opening fence of the new chunk forgotten
AddBlockNoOpen(wr, line) ==
    LET n == Len(wr.messages)
        last == wr.messages[n]
    IN  IF Len(last) + Len(line) > wr.max_size
        THEN [wr EXCEPT !.messages =
                Append([@ EXCEPT ![n] = IF wr.code_mode THEN last \o FENCE ELSE last],
                       line)]
        ELSE [wr EXCEPT !.messages[n] = @ \o line]

\* MessageWriter._add_block
AddBlock(wr, line) ==
    LET n == Len(wr.messages)
        last == wr.messages[n]
    IN  IF Len(last) + Len(line) > wr.max_size
        THEN [wr EXCEPT !.messages =
                Append([@ EXCEPT ![n] = IF wr.code_mode THEN last \o FENCE ELSE last],
                       (IF wr.code_mode THEN FENCE ELSE <<>>) \o line)]
        ELSE [wr EXCEPT !.messages[n] = @ \o line]

\* the slice line[max_size:] taken one character too far
RestOfLineSkipping(line, max_size) == SubSeq(line, max_size + 2, Len(line))

\* line[max_size:]
RestOfLine(line, max_size) == SubSeq(line, max_size + 1, Len(line))

\* the while loop of add_line, then its last _add_block
RECURSIVE AddPieces(_, _)
AddPieces(wr, line) ==
    IF Len(line) > wr.max_size
    THEN AddPieces(AddBlock(wr, SubSeq(line, 1, wr.max_size)),
                   RestOfLine(line, wr.max_size))
    ELSE AddBlock(wr, line)

\* MessageWriter.add_line
AddLine(wr, line) == AddPieces(wr, line \o <<NL>>)

\* MessageWriter.set_code_mode
SetCodeMode(wr) ==
    [wr EXCEPT !.messages[Len(wr.messages)] = @ \o FENCE, !.code_mode = TRUE]

\* MessageWriter.set_plain_mode
SetPlainMode(wr) ==
    [wr EXCEPT !.messages[Len(wr.messages)] = @ \o FENCE, !.code_mode = FALSE]

(***************************************************************************)
(* escape_ansi, CompileResult.to_messages, run_compiler                    *)
(***************************************************************************)
\* the character \x1b
ESC == "ESC"

\* length of the match of \x1b\[([\d;]*?)m at position i of s, 0 for no match
RECURSIVE ParamsEnd(_, _)
ParamsEnd(s, j) ==
    IF j > Len(s) THEN 0
    ELSE IF s[j] = "m" THEN j
    ELSE IF IsDigit(s[j]) \/ s[j] = ";" THEN ParamsEnd(s, j + 1)
    ELSE 0

SgrMatchLen(s, i) ==
    IF StartsWithAt(s, i, <<ESC, "[">>) /\ ParamsEnd(s, i + 2) # 0
    THEN ParamsEnd(s, i + 2) - i + 1
    ELSE 0

\* re.sub(r'\x1b\[([\d;]*?)m', '', s) from position i on
RECURSIVE RemoveSgr(_, _)
RemoveSgr(s, i) ==
    IF i > Len(s) THEN <<>>
    ELSE IF SgrMatchLen(s, i) # 0 THEN RemoveSgr(s, i + SgrMatchLen(s, i))
    ELSE <<s[i]>> \o RemoveSgr(s, i + 1)

\* s.replace('\x1b[K', '') from position i on
RECURSIVE RemoveEraseLine(_, _)
RemoveEraseLine(s, i) ==
    IF i > Len(s) THEN <<>>
    ELSE IF StartsWithAt(s, i, <<ESC, "[", "K">>) THEN RemoveEraseLine(s, i + 3)
    ELSE <<s[i]>> \o RemoveEraseLine(s, i + 1)

\* escape_ansi; both patterns begin with \x1b, so a text without that
\* character is returned as it is
EscapeAnsi(text) ==
    IF \A i \in DOMAIN text : text[i] # ESC THEN text
    ELSE RemoveEraseLine(RemoveSgr(text, 1), 1)

\* lines_output: the text of each line, escape codes removed
LinesOutput(output) == [i \in DOMAIN output |-> EscapeAnsi(output[i])]

\* MessageWriter's default max_size
DEFAULT_MAX_SIZE == 4096
\* how many chunks compile and edited send
MESSAGE_LIMIT == 1

\* the for loops of to_messages
RECURSIVE AddLines(_, _)
AddLines(wr, lines) ==
    IF lines = <<>> THEN wr ELSE AddLines(AddLine(wr, lines[1]), Tail(lines))

ASM_VOID == <<"*", "A", "s", "s", "e", "m", "b", "l", "y", "*", ":", " ", "v", "o", "i", "d">>
ASM_TITLE == <<"*", "A", "s", "s", "e", "m", "b", "l", "y", ":", "*">>
OUT_VOID == <<"*", "O", "u", "t", "p", "u", "t", "*", ":", " ", "v", "o", "i", "d">>
OUT_TITLE == <<"*", "O", "u", "t", "p", "u", "t", "*", ":">>

\* one section of to_messages with set_plain_mode left out
SectionLeftOpen(wr, lines, void, title) ==
    IF lines = <<>> THEN AddLine(wr, void)
    ELSE AddLines(SetCodeMode(AddLine(wr, title)), lines)

\* one section of to_messages: the void line, or the title and the fenced lines
Section(wr, lines, void, title) ==
    IF lines = <<>> THEN AddLine(wr, void)
    ELSE SetPlainMode(AddLines(SetCodeMode(AddLine(wr, title)), lines))

\* OutputKind: kind & OutputKind.ASM, kind & OutputKind.OUTPUT
KindASM == "ASM"
KindOUTPUT == "OUTPUT"
KindALL == "ALL"
\* kind & OutputKind.ASM taken as true for every kind
HasAsmAlways(kind) == TRUE

HasAsm(kind) == kind \in {KindASM, KindALL}
HasOutput(kind) == kind \in {KindOUTPUT, KindALL}

\* the writer of CompileResult.to_messages when it returns
ToMessagesWriter(r, kind) ==
    LET w0 == AddLine(NewWriter(DEFAULT_MAX_SIZE), r.header)
        w1 == IF HasAsm(kind) THEN Section(w0, r.asm, ASM_VOID, ASM_TITLE) ELSE w0
    IN  IF HasOutput(kind) THEN Section(w1, r.output, OUT_VOID, OUT_TITLE) ELSE w1

\* CompileResult.to_messages
ToMessages(r, kind) == ToMessagesWriter(r, kind).messages

\* the marks of the header (a cross mark, a check mark)
MARK_FAILED == "x"
MARK_OK == "v"

\* run_compiler on the reply of the remote service
RunCompiler(compiler, args, reply) ==
    [ok |-> reply.code = 0,
     header |-> compiler \o <<" ">> \o args \o <<" ">>
                \o <<IF reply.code # 0 THEN MARK_FAILED ELSE MARK_OK>>,
     asm |-> LinesOutput(reply.asm),
     output |-> LinesOutput(reply.stderr)]

\* the slice messages[:n] left out: every chunk taken
TakeAll(ms, n) == ms

\* messages[:n]
Take(ms, n) == SubSeq(ms, 1, IF n < Len(ms) THEN n ELSE Len(ms))

(***************************************************************************)
(* The records the remote service may list, and the lists it answers with. *)
(***************************************************************************)
Raw(id, semver, name, lang, instructionSet) ==
    [id |-> id, semver |-> semver, name |-> name, lang |-> lang,
     instructionSet |-> instructionSet]

T_GCC == <<"g", "c", "c">>
T_CLANG == <<"c", "l">>
T_MSVC == <<"M", "S", "V", "C">>

RawPool ==
    { Raw(<<"g", "1", "0", "3">>, <<"1", "0", ".", "3", ".", "0">>, T_GCC, "c++", "amd64"),
      Raw(<<"g", "1", "1", "2">>, <<"1", "1", ".", "2", ".", "0">>, T_GCC, "c++", "amd64"),
      Raw(<<"g", "1", "2", "0">>,
          <<"1", "2", ".", "0", ".", "0", "-", "t", "r", "u", "n", "k">>, T_GCC, "c++", "amd64"),
      Raw(<<"g", "1", "1", "0", "2">>, <<"1", "1", ".", "0", ".", "2">>, T_GCC, "c++", "amd64"),
      Raw(<<"g", "1", "1">>, <<"1", "1">>, T_GCC, "c++", "amd64"),
      Raw(<<"g", "1", "2", "1">>,
          <<"1", "2", ".", "1", ".", "0", "+", "b", "1">>, T_GCC, "c++", "amd64"),
      Raw(<<"g", "0", "9">>, <<"0", ".", "9", ".", "1">>, T_GCC, "c++", "amd64"),
      Raw(<<"g", "1", "1", "3">>, <<"1", "1", ".", "3", ".", "0">>, T_GCC, "c++", "aarch64"),
      Raw(<<"g", "1", "0", "4">>, <<"1", "0", ".", "4", ".", "0">>, T_GCC, "c", "amd64"),
      Raw(<<"g", "c", "c">>, <<"(", "x", ")">>, T_GCC, "c++", "amd64"),
      Raw(<<"c", "l", "a", "n", "g", "1", "4">>, <<"1", "4", ".", "0", ".", "0">>, T_CLANG, "c++", "amd64"),
      Raw(<<"v", "c", "p", "p", "_", "v", "1", "9">>, <<"1", "9", ".", "3", ".", "0">>, T_MSVC, "c++", "amd64") }

R_G103 == Raw(<<"g", "1", "0", "3">>, <<"1", "0", ".", "3", ".", "0">>, T_GCC, "c++", "amd64")
R_G112 == Raw(<<"g", "1", "1", "2">>, <<"1", "1", ".", "2", ".", "0">>, T_GCC, "c++", "amd64")
R_G120 == Raw(<<"g", "1", "2", "0">>,
              <<"1", "2", ".", "0", ".", "0", "-", "t", "r", "u", "n", "k">>, T_GCC, "c++", "amd64")

\* gcc 10.3.0, 11.2.0 and the pre-release 12.0.0-trunk
ScenarioD == <<R_G103, R_G112, R_G120>>

RawLists == SeqsUpTo(RawPool, MaxRaw) \cup {ScenarioD}

\* the command tokens looked up
Commands ==
    { GCC, CLANG,
      <<"g", "c", "c", "_", "1", "1">>,
      <<"N", "o", "n", "e", "_", "1", "9", "_", "3">>,
      <<"g", "1", "1", "2">> }

\* the (name, version) pairs handed to get_compiler
Queries ==
    { <<GCC, <<"1", "1", ".", "2", ".", "0">> >>,
      <<GCC, <<"1", "1", ".", "0", ".", "0">> >>,
      <<GCC, <<"1", "1", ".", "2">> >>,
      <<GCC, LATEST>>,
      <<CLANG, <<"1", "4", ".", "0", ".", "0">> >> }

(***************************************************************************)
(* The registry: load at any time, and lookups.                            *)
(***************************************************************************)
\* again: the catalog was already loaded when load was called
NoCall ==
    [op |-> "", command |-> <<>>, name |-> <<>>, version |-> <<>>, out |-> Found(0),
     again |-> FALSE]

CatalogInit ==
    /\ remote \in RawLists
    /\ compilers = <<>>
    /\ loaded = FALSE
    /\ res = NoCall

\* cr.load() keeping the list it had and appending the new one
LoadAppending ==
    /\ compilers' = compilers \o LoadResult(remote)
    /\ loaded' = TRUE
    /\ res' = [NoCall EXCEPT !.op = "load", !.again = loaded]
    /\ UNCHANGED remote

\* cr.load()
Load ==
    /\ compilers' = LoadResult(remote)
    /\ loaded' = TRUE
    /\ res' = [NoCall EXCEPT !.op = "load", !.again = loaded]
    /\ UNCHANGED remote

\* cr.get_compiler_by_command(command)
ByCommand ==
    \E command \in Commands :
        /\ res' = [NoCall EXCEPT !.op = "get_compiler_by_command",
                                 !.command = command,
                                 !.out = GetCompilerByCommand(compilers, command)]
        /\ UNCHANGED <<remote, compilers, loaded>>

\* cr.get_compiler(name, version)
ByVersion ==
    \E q \in Queries :
        /\ res' = [NoCall EXCEPT !.op = "get_compiler",
                                 !.name = q[1],
                                 !.version = q[2],
                                 !.out = GetCompiler(compilers, q[1], q[2])]
        /\ UNCHANGED <<remote, compilers, loaded>>

CatalogNext ==
    \/ Load /\ UNCHANGED <<wvars, bvars, pvars>>
    \/ ByCommand /\ UNCHANGED <<wvars, bvars, pvars>>
    \/ ByVersion /\ UNCHANGED <<wvars, bvars, pvars>>

(***************************************************************************)
(* The writer driven by an arbitrary caller.                               *)
(***************************************************************************)
WriterInit ==
    /\ w \in {NewWriter(m) : m \in 1..MaxSize}
    /\ added = <<>>
    /\ alt = TRUE
    /\ nops = 0

WAddLine ==
    /\ nops < MaxOps
    /\ \E line \in Lines :
        /\ w' = AddLine(w, line)
        /\ added' = added \o line \o <<NL>>
    /\ nops' = nops + 1
    /\ UNCHANGED alt

WSetCodeMode ==
    /\ nops < MaxOps
    /\ w' = SetCodeMode(w)
    /\ alt' = (alt /\ ~w.code_mode)
    /\ nops' = nops + 1
    /\ UNCHANGED added

WSetPlainMode ==
    /\ nops < MaxOps
    /\ w' = SetPlainMode(w)
    /\ alt' = (alt /\ w.code_mode)
    /\ nops' = nops + 1
    /\ UNCHANGED added

WriterNext ==
    \/ WAddLine /\ UNCHANGED <<cvars, bvars, pvars>>
    \/ WSetCodeMode /\ UNCHANGED <<cvars, bvars, pvars>>
    \/ WSetPlainMode /\ UNCHANGED <<cvars, bvars, pvars>>

(***************************************************************************)
(* The chat handlers compile, edited and button_pressed, the MessageStore  *)
(* they share, and the remote compile service.                             *)
(***************************************************************************)
\* cr.default_options.get(name, "")
DEFAULT_OPTIONS == 
    <<"-", "s", "t", "d", "=", "g", "n", "u", "+", "+", "2", "0", " ", "-", "W", "a", "l", "l">>
    \o <<" ", "-", "W", "e", "x", "t", "r", "a", " ", "-", "O", "2">>
DefaultOptions(name) ==
    IF name = Some(GCC) \/ name = Some(CLANG) THEN DEFAULT_OPTIONS ELSE <<>>

VCPP == <<"v", "c", "p", "p">>
MSVC == <<"m", "s", "v", "c">>
NOT_A_COMPILER == "MSVC is not a compiler"

\* json.dumps(options) with the user arguments lost
JsonDumpsNoArguments(options) == [dumped |-> [options EXCEPT !.userArguments = <<>>]]

\* json.dumps(options) and json.loads(payload); of the options only the
\* compiler id and the user arguments vary
JsonDumps(options) == [dumped |-> options]
JsonLoads(payload) == payload.dumped

NoResult == [ok |-> FALSE, header |-> <<>>, asm |-> <<>>, output |-> <<>>]

\* MessageStore.__init__
EmptyStore == [k \in {} |-> NoResult]

\* MessageStore.add_request, MessageStore.add_result
StoreAdd(store, key, value) ==
    [k \in DOMAIN store \cup {key} |-> IF k = key THEN value ELSE store[k]]

\* MessageStore.get_request, MessageStore.get_result
StoreGet(store, key) == IF key \in DOMAIN store THEN Some(store[key]) ELSE None

\* a call on the chat platform
Call(method, text, reply_to_message_id, message_id, chat_id) ==
    [method |-> method, text |-> text, reply_to_message_id |-> reply_to_message_id,
     message_id |-> message_id, chat_id |-> chat_id]

\* the loop over the chunks in compile and edited: one reply_markdown each,
\* the chat platform numbering the replies from id on
Replies(msgs, reply_to_message_id, id, chat_id) ==
    [i \in 1..Len(msgs) |->
        Call("reply_markdown", msgs[i], reply_to_message_id, id + i - 1, chat_id)]

\* the add_result calls of the loop in compile
RECURSIVE AddResults(_, _, _)
AddResults(store, replies, result) ==
    IF replies = <<>> THEN store
    ELSE AddResults(StoreAdd(store, <<replies[1].message_id, replies[1].chat_id>>, result),
                    Tail(replies), result)

\* a line longer than a chunk may be
LONG_LINE == [i \in 1..(DEFAULT_MAX_SIZE + 1) |-> "a"]

\* the answers of the remote compile service
REPLY_OK == [code |-> 0, asm |-> << <<"r", "e", "t">> >>, stderr |-> <<>>]
REPLY_FAILED ==
    [code |-> 1, asm |-> <<>>,
     stderr |-> << <<ESC, "[", "3", "1", "m", "e", "r", "r", ESC, "[", "m", ESC, "[", "K">> >>]
REPLY_LONG == [code |-> 0, asm |-> <<LONG_LINE, <<"r", "e", "t">> >>, stderr |-> <<>>]
RemoteReplies == {REPLY_OK, REPLY_FAILED, REPLY_LONG}

\* the chat the bot serves and the messages users have written in it
ChatIds == {1}
UserMessages == {1, 2}
Sources == { <<"s", "1">>, <<"s", "2">> }

\* the command messages: the command token after the slash, the rest of the
\* command line, the text after the first newline (None when the text has no
\* newline) and the message replied to
CompileUpdates ==
    { [message_id |-> 2, chat_id |-> c, command |-> cmd, compiler_args |-> a,
       body |-> b,
       reply_to |-> Some([message_id |-> r, chat_id |-> c, text |-> <<"s", "1">>])] :
        c \in ChatIds,
        cmd \in {GCC, VCPP \o <<"_", "v", "1", "9">>, NONE_STR \o <<"_", "1", "9", "_", "3">>},
        a \in {<<>>, <<"-", "O", "1">>},
        b \in {None},
        r \in {1} }
    \cup
    { [message_id |-> 2, chat_id |-> c, command |-> cmd, compiler_args |-> a,
       body |-> b, reply_to |-> None] :
        c \in ChatIds,
        cmd \in {GCC, VCPP \o <<"_", "v", "1", "9">>, NONE_STR \o <<"_", "1", "9", "_", "3">>},
        a \in {<<>>, <<"-", "O", "1">>},
        b \in {None, Some(<<"s", "1">>)} }

\* the edited messages
EditUpdates ==
    [message_id : UserMessages, chat_id : ChatIds, text : Sources]

NoUpdate ==
    [n |-> 0, handler |-> "", u |-> <<>>, raised |-> FALSE, compiled |-> FALSE,
     result |-> NoResult, first |-> 1]

\* what upd records of a handler run
Handled(handler, u, raised, compiled, result) ==
    [n |-> upd.n + 1, handler |-> handler, u |-> u, raised |-> raised,
     compiled |-> compiled, result |-> result, first |-> Len(sent) + 1]

\* compile raising before it has done anything
CompileRaises(u) ==
    /\ upd' = Handled("compile", u, TRUE, FALSE, NoResult)
    /\ UNCHANGED <<compiler_requests, compiler_results, sent, posts, next_id, asked>>

\* compile answering that MSVC is not a compiler
CompileRejects(u) ==
    /\ sent' = Append(sent, Call("reply_text", NOT_A_COMPILER, u.message_id,
                                 next_id, u.chat_id))
    /\ next_id' = next_id + 1
    /\ upd' = Handled("compile", u, FALSE, FALSE, NoResult)
    /\ UNCHANGED <<compiler_requests, compiler_results, posts, asked>>

\* compile from the options dictionary on
CompileRuns(u, options, reply) ==
    LET code == IF u.reply_to # None THEN u.reply_to[1].text ELSE u.body[1]
        code_message_id ==
            IF u.reply_to # None THEN u.reply_to[1].message_id ELSE u.message_id
        result == RunCompiler(options.compiler, options.userArguments, reply)
        replies == Replies(Take(ToMessages(result, KindALL), MESSAGE_LIMIT),
                           code_message_id, next_id, u.chat_id)
    IN  /\ compiler_requests' =
            IF u.reply_to # None
            THEN StoreAdd(compiler_requests,
                          <<u.reply_to[1].message_id, u.reply_to[1].chat_id>>,
                          JsonDumps(options))
            ELSE compiler_requests
        /\ posts' = Append(posts, [compiler |-> options.compiler,
                                   userArguments |-> options.userArguments,
                                   source |-> code])
        /\ sent' = sent \o replies
        /\ compiler_results' = AddResults(compiler_results, replies, result)
        /\ next_id' = next_id + Len(replies)
        /\ upd' = Handled("compile", u, FALSE, TRUE, result)
        /\ asked' =
            IF u.reply_to # None
            THEN StoreAdd(asked, <<u.reply_to[1].message_id, u.reply_to[1].chat_id>>,
                          [command |-> u.command, compiler_args |-> u.compiler_args])
            ELSE asked

\* compile once the command is resolved
CompileWith(u, compiler, reply) ==
    LET compiler_args ==
            IF u.compiler_args = <<>> THEN DefaultOptions(compiler.name)
            ELSE u.compiler_args
    IN  IF StartsWith(u.command, VCPP) \/ Contains(ToLower(compiler.title), MSVC)
        THEN CompileRejects(u)
        ELSE CompileRuns(u, [compiler |-> compiler.id, userArguments |-> compiler_args],
                         reply)

\* compile(update, context), the update and the answer of the remote service
\* taken from the sets given, for the max first updates of a run
CompileOn(updates, replies, max) ==
    /\ upd.n < max
    /\ \E u \in updates, reply \in replies :
        IF (u.reply_to = None /\ u.body = None)
           \/ GetCompilerByCommand(compilers, u.command).err # ""
        THEN CompileRaises(u)
        ELSE CompileWith(u, compilers[GetCompilerByCommand(compilers, u.command).idx],
                         reply)
    /\ UNCHANGED cvars

Compile == CompileOn(CompileUpdates, RemoteReplies, MaxUpdates)

\* edited from json.loads on
EditedRuns(u, options, reply) ==
    LET result == RunCompiler(options.compiler, options.userArguments, reply)
        replies == Replies(Take(ToMessages(result, KindALL), MESSAGE_LIMIT),
                           u.message_id, next_id, u.chat_id)
    IN  /\ posts' = Append(posts, [compiler |-> options.compiler,
                                   userArguments |-> options.userArguments,
                                   source |-> u.text])
        /\ sent' = sent \o replies
        /\ next_id' = next_id + Len(replies)
        /\ upd' = Handled("edited", u, FALSE, TRUE, result)
        /\ UNCHANGED <<compiler_requests, compiler_results, asked>>

\* edited(update, context), the answer of the remote service taken from the
\* set given, for the max first updates of a run
EditedOn(replies, max) ==
    /\ upd.n < max
    /\ \E u \in EditUpdates, reply \in replies :
        IF StoreGet(compiler_requests, <<u.message_id, u.chat_id>>) = None
        THEN /\ upd' = Handled("edited", u, FALSE, FALSE, NoResult)
             /\ UNCHANGED <<compiler_requests, compiler_results, sent, posts, next_id,
                            asked>>
        ELSE EditedRuns(u, JsonLoads(compiler_requests[<<u.message_id, u.chat_id>>]),
                        reply)
    /\ UNCHANGED cvars

Edited == EditedOn(RemoteReplies, MaxUpdates)

\* button_pressed(update, context); the button is on any message of the chat
ButtonPressed ==
    /\ upd.n < MaxUpdates
    /\ \E message_id \in 1..(next_id - 1), chat_id \in ChatIds, data \in {"asm", "output"} :
        LET answer == Call("answer", <<>>, 0, message_id, chat_id)
            result == StoreGet(compiler_results, <<message_id, chat_id>>)
            flag == IF data = "asm" THEN KindASM ELSE KindOUTPUT
        IN  /\ sent' =
                IF result = None THEN Append(sent, answer)
                ELSE sent \o <<answer,
                               Call("edit_message_text", ToMessages(result[1], flag)[1],
                                    0, message_id, chat_id)>>
            /\ upd' = Handled("button_pressed",
                              [message_id |-> message_id, chat_id |-> chat_id,
                               data |-> data],
                              FALSE, FALSE,
                              IF result = None THEN NoResult ELSE result[1])
    /\ UNCHANGED <<compiler_requests, compiler_results, posts, next_id, asked>>
    /\ UNCHANGED cvars

BotNext ==
    \/ Compile /\ UNCHANGED <<wvars, pvars>>
    \/ Edited /\ UNCHANGED <<wvars, pvars>>
    \/ ButtonPressed /\ UNCHANGED <<wvars, pvars>>

\* the compiler list of the running bot: gcc 11.2.0 and a Visual C++
BotRemote ==
    <<R_G112,
      Raw(<<"v", "c", "p", "p", "_", "v", "1", "9">>, <<"1", "9", ".", "3", ".", "0">>,
          T_MSVC, "c++", "amd64")>>

\* the state main() starts the handlers in: cr.load() has run, the store is empty
BotInit ==
    /\ remote = BotRemote
    /\ compilers = LoadResult(BotRemote)
    /\ loaded = TRUE
    /\ res = [NoCall EXCEPT !.op = "load"]
    /\ compiler_requests = EmptyStore
    /\ compiler_results = EmptyStore
    /\ sent = <<>>
    /\ posts = <<>>
    /\ next_id = 3
    /\ upd = NoUpdate
    /\ asked = EmptyStore

\* no update handled
BotIdle ==
    /\ compiler_requests = EmptyStore
    /\ compiler_results = EmptyStore
    /\ sent = <<>>
    /\ posts = <<>>
    /\ next_id = 3
    /\ upd = NoUpdate
    /\ asked = EmptyStore

\* the registry as constructed and never used
CatalogIdle == remote = <<>> /\ compilers = <<>> /\ loaded = FALSE /\ res = NoCall

\* a default writer never used
WriterIdle == w = NewWriter(MaxSize) /\ added = <<>> /\ alt = TRUE /\ nops = 0

\* no function called
NoArg == <<>>
NoRet == [op |-> "", out |-> <<>>]
FunctionsIdle == arg = NoArg /\ ret = NoRet

InitWriter == WriterInit /\ CatalogIdle /\ BotIdle /\ FunctionsIdle

InitCatalog == CatalogInit /\ WriterIdle /\ BotIdle /\ FunctionsIdle

InitBot == BotInit /\ WriterIdle /\ FunctionsIdle

SpecWriter == InitWriter /\ [][WriterNext]_vars

SpecCatalog == InitCatalog /\ [][CatalogNext]_vars

SpecBot == InitBot /\ [][BotNext]_vars

(***************************************************************************)
(* Commands that reply to a message, and edits of messages: longer runs of *)
(* compile and edited, the remote service giving short answers.            *)
(***************************************************************************)
ReplyCommands == {u \in CompileUpdates : u.reply_to # None}
ShortReplies == {REPLY_OK, REPLY_FAILED}

CompileReplying == CompileOn(ReplyCommands, ShortReplies, MaxTurns)
EditedAgain == EditedOn(ShortReplies, MaxTurns)

EditsNext ==
    \/ CompileReplying /\ UNCHANGED <<wvars, pvars>>
    \/ EditedAgain /\ UNCHANGED <<wvars, pvars>>

InitEdits == BotInit /\ WriterIdle /\ FunctionsIdle

SpecEdits == InitEdits /\ [][EditsNext]_vars

(***************************************************************************)
(* convert_ansi (playground/dead.py).  The HTML it returns is modelled as  *)
(* a sequence whose elements are the characters of the text and, each as   *)
(* one element, the pieces of markup the code writes: an escaped entity,   *)
(* the opening of a span, an attribute, the separator of attributes, the   *)
(* end of the opening tag, the closing tag.                                *)
(***************************************************************************)
SPAN_OPEN == "<span style=\""
ATTR_SEP == "; "
SPAN_STYLE_END == "\">"
SPAN_CLOSE == "</span>"

\* text.replace('&', '&amp;').replace('<', '&lt;').replace('>', '&gt;')
HtmlEscape(text) ==
    [i \in DOMAIN text |->
        IF text[i] = "&" THEN "&amp;"
        ELSE IF text[i] = "<" THEN "&lt;"
        ELSE IF text[i] = ">" THEN "&gt;"
        ELSE text[i]]

\* the table ansi_to_html
AnsiCodes == {1, 4, 7} \cup (30..37) \cup (40..47)
ColourHex ==
    <<"#000000", "#ff0000", "#00ff00", "#ffff00", "#0000ff", "#ff00ff", "#00ffff", "#ffffff">>
AnsiToHtml(n) ==
    IF n = 1 THEN <<"font-weight: bold">>
    ELSE IF n = 4 THEN <<"text-decoration: underline">>
    ELSE IF n = 7 THEN <<"text-decoration: reverse">>
    ELSE IF n \in 30..37 THEN <<"color: ", ColourHex[n - 29]>>
    ELSE <<"background-color: ", ColourHex[n - 39]>>

\* [proces_param(s) for s in match.group(1).split(';')]
MatchParams(group) ==
    [k \in DOMAIN Split(group, ";") |->
        IF Split(group, ";")[k] = <<>> THEN 0 ELSE DigitsToNat(Split(group, ";")[k])]

\* the loop over escape_pattern.finditer(text) and the final fragment: i is
\* where the search goes on, start and params are the variables of the code
RECURSIVE Fragments(_, _, _, _)
Fragments(text, i, start, params) ==
    IF i > Len(text)
    THEN <<[params |-> params, plain_text |-> SubSeq(text, start, Len(text))]>>
    ELSE IF SgrMatchLen(text, i) # 0
    THEN <<[params |-> params, plain_text |-> SubSeq(text, start, i - 1)]>>
         \o Fragments(text, i + SgrMatchLen(text, i), i + SgrMatchLen(text, i),
                      MatchParams(SubSeq(text, i + 2, i + SgrMatchLen(text, i) - 2)))
    ELSE Fragments(text, i + 1, start, params)

\* html_attrs after the if of the second loop, = written where += stands
NextAttrsLast(html_attrs, params) ==
    IF 0 \in Range(params) \/ params = <<>> THEN <<>>
    ELSE SelectSeq(params, LAMBDA n : n \in AnsiCodes)

\* html_attrs after the if of the second loop
NextAttrs(html_attrs, params) ==
    IF 0 \in Range(params) \/ params = <<>> THEN <<>>
    ELSE html_attrs \o SelectSeq(params, LAMBDA n : n \in AnsiCodes)

\* "; ".join(html_attrs), each attribute written from the table
RECURSIVE JoinAttrs(_)
JoinAttrs(codes) ==
    IF codes = <<>> THEN <<>>
    ELSE IF Len(codes) = 1 THEN AnsiToHtml(codes[1])
    ELSE AnsiToHtml(codes[1]) \o <<ATTR_SEP>> \o JoinAttrs(Tail(codes))

\* what the second loop adds to html for one fragment
Emit(html_attrs, plain_text) ==
    IF plain_text = <<>> THEN <<>>
    ELSE IF html_attrs # <<>>
    THEN <<SPAN_OPEN>> \o JoinAttrs(html_attrs) \o <<SPAN_STYLE_END>>
         \o plain_text \o <<SPAN_CLOSE>>
    ELSE plain_text

\* the second loop of convert_ansi; html_attrs holds the codes of the attributes
RECURSIVE RenderFragments(_, _)
RenderFragments(fragments, html_attrs) ==
    IF fragments = <<>> THEN <<>>
    ELSE Emit(NextAttrs(html_attrs, fragments[1].params), fragments[1].plain_text)
         \o RenderFragments(Tail(fragments), NextAttrs(html_attrs, fragments[1].params))

\* convert_ansi
ConvertAnsi(text) == RenderFragments(Fragments(HtmlEscape(text), 1, 1, <<>>), <<>>)

(***************************************************************************)
(* convert_ansi called on a text made of escape sequences and characters.  *)
(***************************************************************************)
\* \x1b[ group m
Sgr(group) == <<ESC, "[">> \o group \o <<"m">>

\* the pieces texts are made of: their characters, and for an escape
\* sequence the parameters it carries
Pieces ==
    { [chars |-> <<"a">>, seq |-> FALSE, params |-> <<>>],
      [chars |-> <<"<">>, seq |-> FALSE, params |-> <<>>],
      [chars |-> Sgr(<<>>), seq |-> TRUE, params |-> <<0>>],
      [chars |-> Sgr(<<"0">>), seq |-> TRUE, params |-> <<0>>],
      [chars |-> Sgr(<<"3", "1">>), seq |-> TRUE, params |-> <<31>>],
      [chars |-> Sgr(<<"3", "2">>), seq |-> TRUE, params |-> <<32>>],
      [chars |-> Sgr(<<"1">>), seq |-> TRUE, params |-> <<1>>],
      [chars |-> Sgr(<<"4", "1">>), seq |-> TRUE, params |-> <<41>>],
      [chars |-> Sgr(<<"5">>), seq |-> TRUE, params |-> <<5>>],
      [chars |-> Sgr(<<"0", ";", "3", "1">>), seq |-> TRUE, params |-> <<0, 31>>],
      [chars |-> Sgr(<<"0", "1", ";", "3", "1">>), seq |-> TRUE, params |-> <<1, 31>>] }

\* the text the pieces spell
RECURSIVE TextOf(_)
TextOf(pieces) ==
    IF pieces = <<>> THEN <<>> ELSE pieces[1].chars \o TextOf(Tail(pieces))

ConvertInit ==
    /\ arg \in SeqsUpTo(Pieces, MaxPieces)
    /\ ret = NoRet

\* convert_ansi(text)
Convert ==
    /\ ret' = [op |-> "convert_ansi", out |-> ConvertAnsi(TextOf(arg))]
    /\ UNCHANGED arg

ConvertNext == Convert /\ UNCHANGED <<wvars, cvars, bvars>>

InitConvert == ConvertInit /\ WriterIdle /\ CatalogIdle /\ BotIdle

SpecConvert == InitConvert /\ [][ConvertNext]_vars

(***************************************************************************)
(* to_messages called on a CompileResult with an output kind.              *)
(***************************************************************************)
\* the lines of a section: a short line, a line longer than a chunk
ResultLines == {<<"r", "e", "t">>, LONG_LINE}
Headers == {<<"g", "1", " ", MARK_OK>>, <<"g", "1", " ", MARK_FAILED>>}

CompileResults ==
    {[ok |-> h[Len(h)] = MARK_OK, header |-> h, asm |-> a, output |-> o] :
        h \in Headers,
        a \in SeqsUpTo(ResultLines, MaxLines),
        o \in SeqsUpTo(ResultLines, MaxLines)}

RenderInit ==
    /\ arg \in [result : CompileResults, kind : {KindASM, KindOUTPUT, KindALL}]
    /\ ret = NoRet

\* result.to_messages(kind); out is the writer it returns the messages of
Render ==
    /\ ret' = [op |-> "to_messages", out |-> ToMessagesWriter(arg.result, arg.kind)]
    /\ UNCHANGED arg

RenderNext == Render /\ UNCHANGED <<wvars, cvars, bvars>>

InitRender == RenderInit /\ WriterIdle /\ CatalogIdle /\ BotIdle

SpecRender == InitRender /\ [][RenderNext]_vars

(***************************************************************************)
(* escape_ansi called on a text, and again on what it returned.            *)
(***************************************************************************)
\* the characters of the two patterns, and a digit
StripChars == {ESC, "[", "m", "K", "1"}
StripTexts == SeqsUpTo(StripChars, MaxText)

StripInit ==
    /\ arg \in StripTexts
    /\ ret = NoRet

\* escape_ansi(text), text being the argument or the text returned last
Strip ==
    /\ ret' = [op |-> "escape_ansi",
               out |-> EscapeAnsi(IF ret.op = "" THEN arg ELSE ret.out)]
    /\ UNCHANGED arg

StripNext == Strip /\ UNCHANGED <<wvars, cvars, bvars>>

InitStrip == StripInit /\ WriterIdle /\ CatalogIdle /\ BotIdle

SpecStrip == InitStrip /\ [][StripNext]_vars

(***************************************************************************)
(* Reading the chunks back.                                                *)
(***************************************************************************)
\* number of fence markers in a chunk, scanning from the left (str.count)
RECURSIVE CountFencesFrom(_, _)
CountFencesFrom(s, i) ==
    IF i > Len(s) THEN 0
    ELSE IF StartsWithAt(s, i, FENCE) THEN 1 + CountFencesFrom(s, i + Len(FENCE))
    ELSE CountFencesFrom(s, i + 1)

CountFences(s) == CountFencesFrom(s, 1)

\* the chunk with every fence marker removed (str.replace(FENCE, ""))
RECURSIVE StripFencesFrom(_, _)
StripFencesFrom(s, i) ==
    IF i > Len(s) THEN <<>>
    ELSE IF StartsWithAt(s, i, FENCE) THEN StripFencesFrom(s, i + Len(FENCE))
    ELSE <<s[i]>> \o StripFencesFrom(s, i + 1)

StripFences(s) == StripFencesFrom(s, 1)

RECURSIVE ConcatStripped(_, _)
ConcatStripped(ms, i) ==
    IF i > Len(ms) THEN <<>> ELSE StripFences(ms[i]) \o ConcatStripped(ms, i + 1)

Even(n) == n % 2 = 0

(***************************************************************************)
(* C1: every chunk of messages has length <= max_size, whatever the        *)
(* sequence of add_line, set_code_mode and set_plain_mode calls.           *)
(***************************************************************************)
C1_ChunkBound ==
    \A i \in 1..Len(w.messages) : Len(w.messages[i]) <= w.max_size

(***************************************************************************)
(* C2: a call that starts new chunks while code_mode is true leaves every  *)
(* finished chunk ending with a fence marker and every new chunk beginning *)
(* with one; and when set_code_mode and set_plain_mode have alternated,    *)
(* every chunk but the last holds an even number of fence markers, and the *)
(* last one does exactly when the writer is in plain mode.                 *)
(***************************************************************************)
C2_FencesBalanced ==
    [][ /\ (Len(w'.messages) > Len(w.messages) /\ w.code_mode) =>
            \A j \in Len(w.messages)..Len(w'.messages) :
                /\ j < Len(w'.messages) => EndsWith(w'.messages[j], FENCE)
                /\ j > Len(w.messages) => StartsWith(w'.messages[j], FENCE)
        /\ alt' =>
            /\ \A j \in 1..(Len(w'.messages) - 1) : Even(CountFences(w'.messages[j]))
            /\ Even(CountFences(w'.messages[Len(w'.messages)])) <=> ~w'.code_mode
      ]_vars

\* a sliced over-long line rolled over in code mode, and the writer is back in plain mode
C2_Witness ==
    /\ alt /\ ~w.code_mode
    /\ Len(w.messages) >= 3
    /\ \E j \in 2..Len(w.messages) : StartsWith(w.messages[j], FENCE)

(***************************************************************************)
(* C3: the chunks with their fence markers removed, concatenated in order, *)
(* are the added lines, each followed by its line terminator.              *)
(***************************************************************************)
C3_Concatenation == ConcatStripped(w.messages, 1) = added

\* lines were added in both modes, one of them sliced, over several chunks
C3_Witness ==
    /\ Len(w.messages) >= 3
    /\ Len(added) > w.max_size
    /\ \E j \in 1..Len(w.messages) : CountFences(w.messages[j]) > 0
    /\ \E i \in 1..Len(added) : added[i] = BT

(***************************************************************************)
(* What a handler sent for the result it compiled.                         *)
(***************************************************************************)
\* the calls the last handler made on the chat platform
SentByLast == SubSeq(sent, upd.first, Len(sent))

\* the chunks to_messages(ALL) gives for the result of the last handler
AllChunks == ToMessages(upd.result, KindALL)

\* C4 as stated: after compile or edited has compiled, every chunk of
\* to_messages(ALL) of the result has been sent as a reply, in order.
C4_Original ==
    upd.compiled =>
        /\ Len(SentByLast) = Len(AllChunks)
        /\ \A i \in DOMAIN SentByLast :
            /\ SentByLast[i].method = "reply_markdown"
            /\ SentByLast[i].text = AllChunks[i]

\* C4 amended: after compile or edited has compiled, the replies sent are the
\* first MESSAGE_LIMIT chunks of to_messages(ALL) of the result, in order, and
\* no chunk after them is sent.
C4_FirstChunksSent ==
    upd.compiled =>
        /\ Len(SentByLast) =
            (IF Len(AllChunks) < MESSAGE_LIMIT THEN Len(AllChunks) ELSE MESSAGE_LIMIT)
        /\ \A i \in DOMAIN SentByLast :
            /\ SentByLast[i].method = "reply_markdown"
            /\ SentByLast[i].text = AllChunks[i]

\* an edit has recompiled a result of more chunks than MESSAGE_LIMIT
C4_Witness ==
    /\ upd.handler = "edited"
    /\ upd.compiled
    /\ Len(AllChunks) > MESSAGE_LIMIT

(***************************************************************************)
(* Reading the catalog back.                                               *)
(***************************************************************************)
\* the primary descriptors load keeps
Prim == Primaries(remote)

HasLabel(c) == c.ver.isver /\ (c.ver.v.prerelease # None \/ c.ver.v.build # None)

\* positions in Prim of the toolchain's descriptors with a structured version
Structured(name) ==
    {i \in DOMAIN Prim : Prim[i].name = Some(name) /\ Prim[i].ver.isver}

\* m is the first position in S holding the greatest version of S
FirstMax(S, m) ==
    /\ m \in S
    /\ \A j \in S : VersionCmp(Prim[j].ver.v, Prim[m].ver.v) <= 0
    /\ \A j \in S : j < m => VersionCmp(Prim[j].ver.v, Prim[m].ver.v) < 0

\* the last call was get_compiler_by_command(command), on a loaded catalog
LookedUp(command) ==
    loaded /\ res.op = "get_compiler_by_command" /\ res.command = command

\* positions in compilers of the latest aliases and of the trimmed-version aliases
LatestAt == {i \in DOMAIN compilers : i > Len(Prim) /\ compilers[i].ver = AsStr(LATEST)}
TrimmedAt == {i \in DOMAIN compilers : i > Len(Prim) /\ compilers[i].ver.isver}

\* the lookup gave the descriptor with this remote identifier
GaveId(id) == res.out.err = "" /\ compilers[res.out.idx].id = id

LatestResolves(name) ==
    IF Structured(name) = {}
    THEN \A i \in LatestAt : compilers[i].command # name
    ELSE \E m \in Structured(name) : FirstMax(Structured(name), m) /\ GaveId(Prim[m].id)

(***************************************************************************)
(* C5 (as claimed): after load, looking up gcc or clang gives the remote   *)
(* identifier of the toolchain's primary descriptor with the greatest      *)
(* structured version; when the toolchain has none, no latest alias is     *)
(* added.                                                                  *)
(***************************************************************************)
C5_Original ==
    \A name \in {GCC, CLANG} : LookedUp(name) => LatestResolves(name)

(***************************************************************************)
(* C5 (amended): the same, provided no primary descriptor's own command    *)
(* token is the toolchain name: primaries come first in the lookup. With   *)
(* no structured version in the toolchain no latest alias is added.        *)
(***************************************************************************)
C5_LatestAlias ==
    \A name \in {GCC, CLANG} :
        /\ (LookedUp(name) /\ \A i \in DOMAIN Prim : Prim[i].command # name)
                => LatestResolves(name)
        /\ (loaded /\ Structured(name) = {})
                => \A i \in LatestAt : compilers[i].command # name

\* gcc was looked up in a catalog whose greatest gcc version is not listed first
C5_Witness ==
    /\ LookedUp(GCC)
    /\ \A i \in DOMAIN Prim : Prim[i].command # GCC
    /\ \E m \in Structured(GCC) : m > 1 /\ FirstMax(Structured(GCC), m)
    /\ res.out.err = ""

(***************************************************************************)
(* C6 (as claimed): the latest alias is never derived from a descriptor    *)
(* whose version has a pre-release or build label; with gcc 10.3.0, 11.2.0 *)
(* and 12.0.0-trunk loaded, gcc resolves to the 11.2.0 descriptor.         *)
(***************************************************************************)
C6_Original ==
    /\ loaded => \A i \in LatestAt : \A j \in DOMAIN Prim :
            Prim[j].id = compilers[i].id => ~HasLabel(Prim[j])
    /\ (remote = ScenarioD /\ LookedUp(GCC)) => GaveId(R_G112.id)

(***************************************************************************)
(* C6 (amended): a pre-release version takes part in the choice like any   *)
(* other structured version; with gcc 10.3.0, 11.2.0 and 12.0.0-trunk      *)
(* loaded, gcc resolves to the 12.0.0-trunk descriptor, whose version is   *)
(* the greatest.  A labelled version greater than every unlabelled one of  *)
(* its toolchain always gives the latest alias.                            *)
(***************************************************************************)
C6_PrereleaseIsLatest ==
    /\ (remote = ScenarioD /\ LookedUp(GCC)) => GaveId(R_G120.id)
    /\ \A name \in {GCC, CLANG} :
        (/\ loaded
         /\ \E m \in Structured(name) :
                /\ HasLabel(Prim[m])
                /\ \A j \in Structured(name) :
                     ~HasLabel(Prim[j]) => VersionCmp(Prim[j].ver.v, Prim[m].ver.v) < 0)
        => \E i \in LatestAt :
                /\ compilers[i].command = name
                /\ \E m \in Structured(name) : HasLabel(Prim[m]) /\ Prim[m].id = compilers[i].id

\* the three-compiler catalog is loaded and gcc was looked up
C6_Witness == remote = ScenarioD /\ LookedUp(GCC) /\ res.out.err = ""

(***************************************************************************)
(* C7: after load the trimmed-version aliases are, in order, one for each  *)
(* descriptor whose version is structured, has no pre-release or build     *)
(* label and a non-zero major; the alias has the descriptor's identifier,  *)
(* title and version, and its token is the name, then the major, then the  *)
(* minor unless it is zero, then the patch unless it or the minor is zero  *)
(* (10.3.0 gives gcc_10_3, 11.0.2 gives gcc_11).                           *)
(***************************************************************************)
Trimmable(c) == c.ver.isver /\ ~HasLabel(c) /\ c.ver.v.major # 0

TrimmedToken(c) ==
    NameStr(c.name) \o <<"_">> \o NatToStr(c.ver.v.major)
    \o (IF c.ver.v.minor = 0 THEN <<>>
        ELSE <<"_">> \o NatToStr(c.ver.v.minor)
             \o (IF c.ver.v.patch = 0 THEN <<>> ELSE <<"_">> \o NatToStr(c.ver.v.patch)))

TrimmedOf(c) == [c EXCEPT !.command = TrimmedToken(c)]

C7_TrimmedAliases ==
    loaded =>
        /\ SelectSeq(SubSeq(compilers, Len(Prim) + 1, Len(compilers)),
                     LAMBDA c : c.ver.isver)
             = [i \in 1..Len(SelectSeq(Prim, Trimmable)) |->
                    TrimmedOf(SelectSeq(Prim, Trimmable)[i])]
        /\ \A i \in TrimmedAt :
            /\ (compilers[i].id = R_G103.id
                    => compilers[i].command = <<"g", "c", "c", "_", "1", "0", "_", "3">>)
            /\ (compilers[i].id = <<"g", "1", "1", "0", "2">>
                    => compilers[i].command = <<"g", "c", "c", "_", "1", "1">>)

\* 11.0.2 and a version with a label or a zero major were loaded; only the first has an alias
C7_Witness ==
    /\ loaded
    /\ \E i \in TrimmedAt : compilers[i].command = <<"g", "c", "c", "_", "1", "1">>
                            /\ compilers[i].ver.v.patch = 2
    /\ \E j \in DOMAIN Prim : Prim[j].ver.isver /\ ~Trimmable(Prim[j])
    /\ Cardinality(TrimmedAt) = 1

(***************************************************************************)
(* C8: a descriptor whose identifier matches no toolchain pattern (name    *)
(* None) is kept as a primary descriptor and no alias, latest or trimmed,  *)
(* is derived from it.                                                     *)
(***************************************************************************)
C8_NoAliasWithoutToolchain ==
    loaded =>
        /\ \A r \in Range(remote) :
              (r.lang = LANG_CPP /\ r.instructionSet = ISET_AMD64)
                  => \E i \in DOMAIN Prim : compilers[i].id = r.id
        /\ \A i \in LatestAt \cup TrimmedAt : compilers[i].name # None

(***************************************************************************)
(* C9: get_compiler_by_command gives the first descriptor, in the order    *)
(* primaries, latest aliases, trimmed-version aliases, whose command token *)
(* is the one asked for; it raises ValueError exactly when there is none;  *)
(* and it leaves the catalog as it was.                                    *)
(***************************************************************************)
C9_FirstMatch ==
    [][ res'.op = "get_compiler_by_command" =>
          /\ compilers' = compilers
          /\ (res'.out.err = VALUE_ERROR /\ res'.out.idx = 0)
                <=> (\A i \in DOMAIN compilers : compilers[i].command # res'.command)
          /\ res'.out.err \in {"", VALUE_ERROR}
          /\ res'.out.err = "" =>
                /\ res'.out.idx \in DOMAIN compilers
                /\ compilers[res'.out.idx].command = res'.command
                /\ \A j \in 1..(res'.out.idx - 1) : compilers[j].command # res'.command
          /\ loaded =>
                /\ SubSeq(compilers, 1, Len(Prim)) = Prim
                /\ \A i \in LatestAt : \A j \in TrimmedAt : i < j
                /\ LatestAt \cup TrimmedAt = (Len(Prim) + 1)..Len(compilers)
      ]_vars

\* several descriptors have the token asked for, and the first of them was given
C9_Witness ==
    /\ loaded
    /\ res.op = "get_compiler_by_command"
    /\ res.out.err = ""
    /\ Cardinality({i \in DOMAIN compilers : compilers[i].command = res.command}) >= 2
    /\ \E i \in TrimmedAt : compilers[i].command = res.command /\ i > res.out.idx

\* a primary descriptor was given although an alias has the same token
C9_WitnessPrimary ==
    /\ LookedUp(GCC)
    /\ res.out.err = "" /\ res.out.idx <= Len(Prim)
    /\ \E i \in LatestAt : compilers[i].command = GCC

(***************************************************************************)
(* C10: on a loaded catalog, get_compiler(toolchain, v) with a structured  *)
(* v gives a descriptor of the toolchain with the greatest version in      *)
(* [v, bump_patch(v)), and raises ValueError when the toolchain has no     *)
(* descriptor with a version in that range.                                *)
(***************************************************************************)
InRange(name, v) ==
    {i \in DOMAIN compilers :
        /\ compilers[i].name = Some(name)
        /\ compilers[i].ver.isver
        /\ VersionCmp(compilers[i].ver.v, v) >= 0
        /\ VersionCmp(compilers[i].ver.v, BumpPatch(v)) < 0}

C10_RangeLookup ==
    (loaded /\ res.op = "get_compiler" /\ VersionParse(res.version, FALSE) # None) =>
        LET v == VersionParse(res.version, FALSE)[1]
            S == InRange(res.name, v)
        IN  IF S = {} THEN res.out = Raised(VALUE_ERROR)
            ELSE /\ res.out.err = ""
                 /\ res.out.idx \in S
                 /\ \A j \in S : VersionCmp(compilers[j].ver.v,
                                            compilers[res.out.idx].ver.v) <= 0

(***************************************************************************)
(* C11 (as claimed): a load on a catalog that is already loaded appends:   *)
(* the descriptors of the earlier load stay, in place, and those of the    *)
(* new load follow them.                                                   *)
(***************************************************************************)
C11_LoadAppends ==
    [][ (loaded /\ res'.op = "load") =>
          /\ Len(compilers') = Len(compilers) + Len(LoadResult(remote))
          /\ SubSeq(compilers', 1, Len(compilers)) = compilers
      ]_vars

(***************************************************************************)
(* C11 (amended): load replaces the descriptor sequence.  A load on a      *)
(* catalog already loaded from the same raw list leaves the sequence as it *)
(* was: nothing of the earlier load is kept beside the new descriptors.    *)
(***************************************************************************)
C11_LoadReplaces ==
    [][ (loaded /\ res'.op = "load" /\ remote' = remote) =>
          /\ compilers' = compilers
          /\ Len(compilers') <= 2 * Len(remote) + 2
      ]_vars

\* load has run on a catalog that held descriptors and aliases already
C11_Witness == res.op = "load" /\ res.again /\ Len(compilers) > 1

(***************************************************************************)
(* C12: after load every descriptor, primary or alias, has the identifier  *)
(* and title of a record of the raw list whose language is c++ and whose   *)
(* instruction set is amd64; the primaries are those records, in order;    *)
(* and no descriptor has the identifier of a record that fails the test.   *)
(***************************************************************************)
Retained(r) == r.lang = "c++" /\ r.instructionSet = "amd64"

C12_OnlyTargetRecords ==
    loaded =>
        /\ \A i \in DOMAIN compilers : \E r \in Range(remote) :
                Retained(r) /\ r.id = compilers[i].id /\ r.name = compilers[i].title
        /\ Len(compilers) >= Len(SelectSeq(remote, Retained))
        /\ \A i \in DOMAIN SelectSeq(remote, Retained) :
                compilers[i].id = SelectSeq(remote, Retained)[i].id
        /\ \A r \in Range(remote) :
                ~Retained(r) => \A i \in DOMAIN compilers : compilers[i].id # r.id

\* a list with a record kept and a record of another language or instruction
\* set was loaded, and the record kept has its aliases
C12_Witness ==
    /\ loaded
    /\ \E r \in Range(remote) : ~Retained(r)
    /\ \E r \in Range(remote) : Retained(r)
    /\ Len(compilers) > 1

(***************************************************************************)
(* C13: escape_ansi is idempotent: a text it has returned is returned      *)
(* unchanged when it is called on it again.                                *)
(***************************************************************************)
C13_Idempotent ==
    ret.op = "escape_ansi" => EscapeAnsi(ret.out) = ret.out

(***************************************************************************)
(* Reading the pieces of a text and the spans of the HTML.                 *)
(***************************************************************************)
\* the parameters of an escape sequence that the table knows
Recognized(params) == SelectSeq(params, LAMBDA n : n \in AnsiCodes)

\* a reset sequence: its parameter list is empty or holds 0
IsReset(piece) == piece.seq /\ 0 \in Range(piece.params)

\* text, in one span listing the attributes of codes, or bare when there is none
Wrapped(codes, text) ==
    IF text = <<>> THEN <<>>
    ELSE IF codes = <<>> THEN text
    ELSE <<SPAN_OPEN>> \o JoinAttrs(codes) \o <<SPAN_STYLE_END>> \o text \o <<SPAN_CLOSE>>

\* the HTML of the pieces: codes are the recognized parameters seen since the
\* last reset sequence, text the characters seen since the last escape sequence
RECURSIVE Styled(_, _, _)
Styled(pieces, codes, text) ==
    IF pieces = <<>> THEN Wrapped(codes, text)
    ELSE IF ~pieces[1].seq
    THEN Styled(Tail(pieces), codes, text \o HtmlEscape(pieces[1].chars))
    ELSE Wrapped(codes, text)
         \o Styled(Tail(pieces),
                   IF IsReset(pieces[1]) THEN <<>>
                   ELSE codes \o Recognized(pieces[1].params),
                   <<>>)

\* the style lists of the spans of an HTML
StyleEnd(h, i) == CHOOSE j \in i..Len(h) :
                    h[j] = SPAN_STYLE_END /\ \A k \in i..(j - 1) : h[k] # SPAN_STYLE_END
Styles(h) == {SubSeq(h, i + 1, StyleEnd(h, i) - 1) : i \in {k \in DOMAIN h : h[k] = SPAN_OPEN}}
Count(style, token) == Cardinality({k \in DOMAIN style : style[k] = token})

C15_ResetThenApply ==
    (/\ ret.op = "convert_ansi"
     /\ Len(arg) = 2 /\ IsReset(arg[1]) /\ ~arg[2].seq
     /\ Recognized(arg[1].params) # <<>>)
    => ret.out = Wrapped(Recognized(arg[1].params), HtmlEscape(arg[2].chars))

(***************************************************************************)
(* C19: with no reset sequence in the text, no span lists two foreground   *)
(* colours, two background colours, or the same attribute twice.           *)
(***************************************************************************)
C19_OneColourEach ==
    (ret.op = "convert_ansi" /\ \A i \in DOMAIN arg : ~IsReset(arg[i])) =>
        \A style \in Styles(ret.out) :
            /\ Count(style, "color: ") <= 1
            /\ Count(style, "background-color: ") <= 1
            /\ \A n \in {1, 4, 7} : Count(style, AnsiToHtml(n)[1]) <= 1

(***************************************************************************)
(* C16: a button press makes no remote compile call and changes no store.  *)
(* With a result stored under the key of the message it edits that message *)
(* once, to the first chunk of the stored result rendered with the section *)
(* of the button alone; with none stored it edits nothing.                 *)
(***************************************************************************)
ASM_MARK == <<"*", "A", "s", "s", "e", "m", "b", "l", "y">>
OUT_MARK == <<"*", "O", "u", "t", "p", "u", "t", "*">>

\* the calls a step adds to sent
NewCalls == SubSeq(sent', Len(sent) + 1, Len(sent'))
NewEdits == SelectSeq(NewCalls, LAMBDA c : c.method = "edit_message_text")

C16_ButtonRerenders ==
    [][ upd'.handler = "button_pressed" =>
          /\ posts' = posts
          /\ compiler_results' = compiler_results
          /\ compiler_requests' = compiler_requests
          /\ IF <<upd'.u.message_id, upd'.u.chat_id>> \in DOMAIN compiler_results
             THEN /\ Len(NewEdits) = 1
                  /\ NewEdits[1].message_id = upd'.u.message_id
                  /\ NewEdits[1].chat_id = upd'.u.chat_id
                  /\ NewEdits[1].text =
                        ToMessages(compiler_results[<<upd'.u.message_id, upd'.u.chat_id>>],
                                   IF upd'.u.data = "asm" THEN KindASM ELSE KindOUTPUT)[1]
                  /\ StartsWith(NewEdits[1].text,
                                compiler_results[<<upd'.u.message_id,
                                                   upd'.u.chat_id>>].header \o <<NL>>)
                  /\ Contains(NewEdits[1].text, ASM_MARK) <=> upd'.u.data = "asm"
                  /\ Contains(NewEdits[1].text, OUT_MARK) <=> upd'.u.data = "output"
             ELSE Len(NewEdits) = 0
      ]_vars

\* the output button was pressed on a reply that has a result stored, and
\* the reply was edited
C16_Witness ==
    /\ upd.handler = "button_pressed"
    /\ upd.u.data = "output"
    /\ <<upd.u.message_id, upd.u.chat_id>> \in DOMAIN compiler_results
    /\ sent[Len(sent)].method = "edit_message_text"

(***************************************************************************)
(* C17: an edit leaves the request store as it was.  When a command has    *)
(* replied to the message edited and stored its request, the edit posts    *)
(* one compile to the remote service, with the compiler identifier and the *)
(* user arguments of the last such command and the edited text; when none  *)
(* has, the edit posts nothing and sends nothing.                          *)
(***************************************************************************)
\* the compiler identifier and the user arguments a command stands for
OptionsOf(cmd) ==
    [compiler |-> compilers[GetCompilerByCommand(compilers, cmd.command).idx].id,
     userArguments |->
        IF cmd.compiler_args # <<>> THEN cmd.compiler_args
        ELSE DefaultOptions(
                compilers[GetCompilerByCommand(compilers, cmd.command).idx].name)]

C17_WitnessTwice ==
    /\ upd.handler = "edited" /\ upd.compiled
    /\ Len(posts) = 3
    /\ posts[2].source # posts[3].source
    /\ posts[2].userArguments = posts[3].userArguments
    /\ Cardinality(DOMAIN compiler_requests) = 1
    /\ Cardinality(DOMAIN compiler_results) = 1

(***************************************************************************)
(* C20: a compile command whose token starts with vcpp, or whose compiler  *)
(* has msvc in its title in any case, is answered with one text reply and  *)
(* nothing else: no compile is posted, no request and no result is stored. *)
(***************************************************************************)
\* msvc in title, in any mix of upper and lower case
HasMsvc(title) ==
    \E i \in 1..(Len(title) - 3) :
        /\ title[i] \in {"m", "M"} /\ title[i + 1] \in {"s", "S"}
        /\ title[i + 2] \in {"v", "V"} /\ title[i + 3] \in {"c", "C"}

IsMsvcCommand(u) ==
    \/ StartsWith(u.command, <<"v", "c", "p", "p">>)
    \/ \E i \in DOMAIN compilers :
          /\ compilers[i].command = u.command
          /\ \A j \in 1..(i - 1) : compilers[j].command # u.command
          /\ HasMsvc(compilers[i].title)

C20_MsvcRejected ==
    [][ (upd'.handler = "compile" /\ IsMsvcCommand(upd'.u)) =>
          /\ Len(NewCalls) = 1
          /\ NewCalls[1].method = "reply_text"
          /\ NewCalls[1].text = NOT_A_COMPILER
          /\ posts' = posts
          /\ compiler_requests' = compiler_requests
          /\ compiler_results' = compiler_results
      ]_vars

(***************************************************************************)
(* C18: to_messages writes the header line, then the assembly section when *)
(* the kind has ASM, then the output section when the kind has OUTPUT.  An *)
(* empty section is its void line and no fence; a section with lines is    *)
(* its title line, one fence, the lines, one fence.  The writer is in      *)
(* plain mode at the end.  The text is read off the chunks with the fences *)
(* the writer puts at a chunk boundary (one closing the chunk, one opening *)
(* the next) taken out.                                                    *)
(***************************************************************************)
RECURSIVE LinesText(_)
LinesText(lines) ==
    IF lines = <<>> THEN <<>> ELSE lines[1] \o <<NL>> \o LinesText(Tail(lines))

SectionText(lines, void, title) ==
    IF lines = <<>> THEN void \o <<NL>>
    ELSE title \o <<NL>> \o FENCE \o LinesText(lines) \o FENCE

RenderedText(r, kind) ==
    r.header \o <<NL>>
    \o (IF kind \in {"ASM", "ALL"}
        THEN SectionText(r.asm,
                         ASM_MARK \o <<"*", ":", " ", "v", "o", "i", "d">>,
                         ASM_MARK \o <<":", "*">>)
        ELSE <<>>)
    \o (IF kind \in {"OUTPUT", "ALL"}
        THEN SectionText(r.output,
                         OUT_MARK \o <<":", " ", "v", "o", "i", "d">>,
                         OUT_MARK \o <<":">>)
        ELSE <<>>)

\* the chunks from the i-th on as one text, a fence that opens a chunk taken
\* out together with the fence that closes the chunk before it
RECURSIVE Unchunk(_, _)
Unchunk(ms, i) ==
    IF i > Len(ms) THEN <<>>
    ELSE IF i < Len(ms) /\ StartsWith(ms[i + 1], FENCE) /\ EndsWith(ms[i], FENCE)
    THEN SubSeq(ms[i], 1, Len(ms[i]) - Len(FENCE))
         \o Unchunk([ms EXCEPT ![i + 1] = SubSeq(@, Len(FENCE) + 1, Len(@))], i + 1)
    ELSE ms[i] \o Unchunk(ms, i + 1)

C18_Sections ==
    ret.op = "to_messages" =>
        /\ ret.out.code_mode = FALSE
        /\ Unchunk(ret.out.messages, 1) = RenderedText(arg.result, arg.kind)
        /\ Len(ret.out.messages) = 1
              => ret.out.messages[1] = RenderedText(arg.result, arg.kind)

\* both sections were asked for, the assembly has a line longer than a chunk
\* and the output is empty
C18_Witness ==
    /\ ret.op = "to_messages"
    /\ arg.kind = KindALL
    /\ arg.result.asm # <<>> /\ arg.result.output = <<>>
    /\ Len(ret.out.messages) > 1

\* both sections have lines and everything is in one chunk
C18_WitnessOneChunk ==
    /\ ret.op = "to_messages"
    /\ arg.kind = KindALL
    /\ arg.result.asm # <<>> /\ arg.result.output # <<>>
    /\ Len(ret.out.messages) = 1

=============================================================================
